---- MODULE Spec2Model ----
(***************************************************************************)
(* A model of the GIF maker of src/app/main.py: the request handler        *)
(* api_render and the rendering core build_gif_bytes with its helpers      *)
(* _resize_stretch, _resize_cover_crop, _rgba_to_rgb, _make_global_palette *)
(* and the multi-frame GIF save.  One render is followed from the call to  *)
(* the response; pc is the position inside build_gif_bytes.                *)
(*                                                                         *)
(* Images are abstract: an image is its decodability, its size, whether it *)
(* carries translucent pixels, whether it is black all over, and its       *)
(* identity (two equal records are the same picture).  Other pixel values  *)
(* are not modelled.                                                       *)
(***************************************************************************)
EXTENDS Integers, Sequences, FiniteSets, TLC

(*************************** bounds of the model ***************************)
\* longest enumerated upload (besides the two uploads at the 80-file limit)
MaxFiles == 3
\* largest small target dimension of a request (besides 7000 and 7001)
MaxDim == 2
\* largest source dimension and largest target dimension of ResizeSpec
MaxSrcDim == 7
MaxTgtDim == 6

(**************************** program constants ****************************)
\* main.py:128  len(files) > 80
MAX_FILES == 80
\* main.py:130  width > 7000 or height > 7000
MAX_SIZE == 7000
\* main.py:76   1000.0 / max(0.01, fps): milliseconds per second
MS_PER_SECOND == 1000
\* main.py:76   max(0.01, fps): the floor 0.01 is 1/100
MIN_FPS_DEN == 100
\* main.py:55   w // 4, h // 4
THUMB_DIV == 4
\* main.py:66   quantize(colors=256)
PALETTE_COLORS == 256
\* main.py:105  loop=0
GIF_LOOP == 0
\* main.py:106  disposal=2
GIF_DISPOSAL == 2

(******************************* arithmetic ********************************)
Max(a, b) == IF a >= b THEN a ELSE b

\* ceil(a / b) for b > 0 (math.ceil of a quotient)
CeilDiv(a, b) == -((-a) \div b)

\* Python's round() of a / b for a >= 0, b > 0: to nearest, ties to even
RoundHalfEven(a, b) ==
  LET q == a \div b
      r2 == 2 * (a % b)
  IN  IF r2 < b THEN q
      ELSE IF r2 > b THEN q + 1
      ELSE IF q % 2 = 0 THEN q ELSE q + 1

\* int() of a / b for a >= 0, b > 0: truncation
TruncDiv(a, b) == a \div b

(********************************* inputs **********************************)
\* an upload that PIL cannot decode
Bad == [ok |-> FALSE, w |-> 0, h |-> 0, alpha |-> FALSE, black |-> FALSE]
\* an opaque 2x1 picture, a 1x2 picture with translucent pixels, and an opaque
\* 1x1 picture that is black
ImgA == [ok |-> TRUE, w |-> 2, h |-> 1, alpha |-> FALSE, black |-> FALSE]
ImgB == [ok |-> TRUE, w |-> 1, h |-> 2, alpha |-> TRUE, black |-> FALSE]
ImgK == [ok |-> TRUE, w |-> 1, h |-> 1, alpha |-> FALSE, black |-> TRUE]

MainImages == {Bad, ImgA, ImgB, ImgK}

SeqsUpTo(S, n) == UNION {[1..m -> S] : m \in 0..n}

\* uploads at and just over the handler's file limit
LongLists ==
  {[i \in 1..n |-> IF i % 2 = 1 THEN ImgA ELSE ImgB] : n \in {MAX_FILES, MAX_FILES + 1}}

\* target dimensions: non-positive, small, and at and over the size limit
Dims == (-1..MaxDim) \cup {MAX_SIZE, MAX_SIZE + 1}

\* fps as a fraction num/den (den > 0): -1, 0, 0.005, 0.5, 1, 16, 24
Fps(n, d) == [num |-> n, den |-> d]
FpsValues == {Fps(-1, 1), Fps(0, 1), Fps(1, 200), Fps(1, 2), Fps(1, 1), Fps(16, 1), Fps(24, 1)}

Fits == {"stretch", "cover"}

VARIABLES
  entry,         \* "api": POST /api/render; "core": build_gif_bytes called directly
  files, width, height, fps, fit,        \* the arguments of the call
  pc,            \* "request", "decode", "palette", "quantize", "save", "done"
  k,             \* index of the next element of the running loop
  duration_ms,   \* build_gif_bytes' duration_ms (0 before the call)
  frames_rgba,   \* build_gif_bytes' frames_rgba
  palette_img,   \* build_gif_bytes' palette_img (<<>> before it is built, else <<p>>)
  frames_p,      \* build_gif_bytes' frames_p
  out,           \* what the caller gets
  core_called,   \* build_gif_bytes has been entered
  palette_builds \* number of calls of _make_global_palette

vars == <<entry, files, width, height, fps, fit, pc, k, duration_ms, frames_rgba,
          palette_img, frames_p, out, core_called, palette_builds>>

args == <<entry, files, width, height, fps, fit>>

(****************************** the outcomes *******************************)
NoOut == [kind |-> "none", error |-> "", frames |-> <<>>, size |-> <<0, 0>>, loop |-> 0,
          disposal |-> 0]

\* api_render's {"error": ...} bodies (main.py:127,129,131)
ErrorBody(msg) == [NoOut EXCEPT !.kind = "error", !.error = msg]

\* an exception leaving build_gif_bytes (api_render has no handler: lines 139-145)
Exception(name) == [NoOut EXCEPT !.kind = "exception", !.error = name]

(******************************* the resizer *******************************)
\* PIL Image.resize((w, h)): the size asked for, or ValueError
\* ("height and width must be > 0") for a size below 1
PilResize(w, h) ==
  IF w < 1 \/ h < 1
    THEN [ok |-> FALSE, error |-> "ValueError", size |-> <<0, 0>>, scaled |-> <<0, 0>>,
          box |-> <<0, 0, 0, 0>>]
    ELSE [ok |-> TRUE, error |-> "", size |-> <<w, h>>, scaled |-> <<w, h>>,
          box |-> <<0, 0, w, h>>]

\* _resize_stretch (main.py:32-35): the image itself when it has the size
\* already, else a resample to (w, h)
ResizeStretch(img, w, h) ==
  IF <<img.w, img.h>> = <<w, h>>
    THEN [ok |-> TRUE, error |-> "", size |-> <<img.w, img.h>>, scaled |-> <<img.w, img.h>>,
          box |-> <<0, 0, img.w, img.h>>]
    ELSE PilResize(w, h)

\* the smaller of the two ratios: the picture fits inside the target
CoverScale_Min(img, w, h) ==
  IF w * img.h <= h * img.w THEN [num |-> w, den |-> img.w] ELSE [num |-> h, den |-> img.h]

\* scale = max(w / src_w, h / src_h) as a fraction with a positive denominator
CoverScale(img, w, h) ==
  IF w * img.h >= h * img.w THEN [num |-> w, den |-> img.w] ELSE [num |-> h, den |-> img.h]

RECURSIVE Gcd(_, _)
Gcd(a, b) == IF b = 0 THEN a ELSE Gcd(b, a % b)

RECURSIVE IsPowerOfTwo(_)
IsPowerOfTwo(n) == n = 1 \/ (n > 1 /\ n % 2 = 0 /\ IsPowerOfTwo(n \div 2))

\* whether the double w / src_w is the fraction itself: its reduced
\* denominator is a power of two
ExactQuotient(scale) ==
  LET g == Gcd(IF scale.num < 0 THEN -scale.num ELSE scale.num, scale.den)
  IN  IsPowerOfTwo(scale.den \div g)

\* int(math.ceil(src * scale)) in double arithmetic.  With a rounded quotient
\* the product may land just above an integer the exact product equals, and
\* the ceiling is then one more (src 7, scale 29/7 gives 30); it never lands a
\* whole unit away.
CeilScaled(src, scale) ==
  LET exact == CeilDiv(src * scale.num, scale.den)
  IN  IF (src * scale.num) % scale.den = 0 /\ ~ExactQuotient(scale)
        THEN {exact, exact + 1}
        ELSE {exact}

\* PIL Image.crop(box): ValueError for right < left or lower < upper, else an
\* image of the box's size
PilCrop(new_w, new_h, left, top, w, h) ==
  IF w < 0 \/ h < 0
    THEN [ok |-> FALSE, error |-> "ValueError", size |-> <<0, 0>>, scaled |-> <<new_w, new_h>>,
          box |-> <<left, top, left + w, top + h>>]
    ELSE [ok |-> TRUE, error |-> "", size |-> <<w, h>>, scaled |-> <<new_w, new_h>>,
          box |-> <<left, top, left + w, top + h>>]

\* the scaled picture returned without the crop
CoverCropAt_NoCrop(new_w, new_h, w, h) == PilResize(new_w, new_h)

\* lines 46-50 of _resize_cover_crop for one scaled size
CoverCropAt(new_w, new_h, w, h) ==
  IF ~PilResize(new_w, new_h).ok
    THEN PilResize(new_w, new_h)
    ELSE PilCrop(new_w, new_h, (new_w - w) \div 2, (new_h - h) \div 2, w, h)

\* _resize_cover_crop (main.py:38-50): the set of results double arithmetic
\* allows
ResizeCoverCrop(img, w, h) ==
  IF img.w = 0 \/ img.h = 0
    THEN {PilResize(w, h)}
    ELSE LET scale == CoverScale(img, w, h)
         IN  {CoverCropAt(new_w, new_h, w, h) :
                new_w \in CeilScaled(img.w, scale), new_h \in CeilScaled(img.h, scale)}

\* lines 83-86 of build_gif_bytes
Resize(img, w, h, policy) ==
  IF policy = "cover" THEN ResizeCoverCrop(img, w, h) ELSE {ResizeStretch(img, w, h)}

(***************************** build_gif_bytes *****************************)
\* int() of the quotient without round()
DurationMs_Truncating(f) ==
  LET c == IF f.num * MIN_FPS_DEN < f.den THEN Fps(1, MIN_FPS_DEN) ELSE f
  IN  TruncDiv(MS_PER_SECOND * c.den, c.num)

\* main.py:76  int(round(1000.0 / max(0.01, float(fps))))
DurationMs(f) ==
  LET c == IF f.num * MIN_FPS_DEN < f.den THEN Fps(1, MIN_FPS_DEN) ELSE f
  IN  RoundHalfEven(MS_PER_SECOND * c.den, c.num)

\* main.py:81-88  the decoded image, converted to RGBA and resized as r says
RgbaFrame(i, img, r) ==
  [src |-> i, img |-> img, mode |-> "RGBA", alpha |-> img.alpha, bg |-> "none",
   size |-> r.size, scaled |-> r.scaled, box |-> r.box]

\* the frame passed on as it is
RgbaToRgb_Skip(im) == im

\* _rgba_to_rgb (main.py:25-29): composite over black, or a plain conversion
RgbaToRgb(im) ==
  IF im.mode = "RGBA"
    THEN [im EXCEPT !.mode = "RGB", !.alpha = FALSE, !.bg = "black"]
    ELSE [im EXCEPT !.mode = "RGB", !.alpha = FALSE]

\* main.py:54-56  the thumbnail size, from the first frame
ThumbSize(size) == <<Max(1, size[1] \div THUMB_DIV), Max(1, size[2] \div THUMB_DIV)>>

\* _make_global_palette (main.py:53-66) for a non-empty list: the palette of
\* the montage of the frames' thumbnails, in frame order
MakeGlobalPalette(frames) ==
  LET t == ThumbSize(frames[1].size)
  IN  [thumbs |-> [i \in DOMAIN frames |->
                     [img |-> frames[i].img, mode |-> frames[i].mode, alpha |-> frames[i].alpha]],
       thumb |-> t,
       montage |-> <<t[1] * Len(frames), t[2]>>,
       colors |-> PALETTE_COLORS]

\* the palette of the frame alone
QuantizeFrame_OwnPalette(fr_rgb, pal) ==
  [src |-> fr_rgb.src, img |-> fr_rgb.img, size |-> fr_rgb.size, mode |-> "P",
   palette |-> MakeGlobalPalette(<<fr_rgb>>),
   from |-> [mode |-> fr_rgb.mode, alpha |-> fr_rgb.alpha, bg |-> fr_rgb.bg]]

\* main.py:95  fr_rgb.quantize(palette=palette_img, dither=FLOYDSTEINBERG);
\* "from" records what the quantizer was handed
QuantizeFrame(fr_rgb, pal) ==
  [src |-> fr_rgb.src, img |-> fr_rgb.img, size |-> fr_rgb.size, mode |-> "P",
   palette |-> pal,
   from |-> [mode |-> fr_rgb.mode, alpha |-> fr_rgb.alpha, bg |-> fr_rgb.bg]]

(****************************** the GIF writer *****************************)
\* two quantized frames with the same pixels: the same picture through the
\* same resize, flattening and palette
SamePicture(a, b) == a.img = b.img /\ a.size = b.size /\ a.palette = b.palette

\* which frames PIL's multi-frame GIF writer leaves out depends on the PIL
\* release: with disposal=2 it compares a frame with the frame written before
\* it ("previous") or with a frame of the background colour, black
\* ("background")
WriterRules == {"previous", "background"}

\* whether black pixels keep the palette entry of pure black: they do when the
\* palette is made of black frames alone, else the octree may average them
BlackKept(fs) == IF \A i \in DOMAIN fs : fs[i].img.black THEN {TRUE} ELSE BOOLEAN

\* the writer finds nothing to draw for frame f after the frame prev
NothingToDraw(rule, exact, f, prev) ==
  IF rule = "previous" THEN SamePicture(f, prev) ELSE f.img.black /\ exact

\* PIL's multi-frame GIF writer (save_all=True, main.py:99-108): a frame with
\* nothing to draw is not written; its duration is added to the frame written
\* before it.  acc is the list of frames kept so far.
RECURSIVE MergeFrames(_, _, _, _, _, _)
MergeFrames(fs, i, d, rule, exact, acc) ==
  IF i > Len(fs) THEN acc
  ELSE IF acc # <<>> /\ NothingToDraw(rule, exact, fs[i], acc[Len(acc)].im)
    THEN MergeFrames(fs, i + 1, d, rule, exact,
           [acc EXCEPT ![Len(acc)].duration = @ + d, ![Len(acc)].srcs = Append(@, fs[i].src)])
    ELSE MergeFrames(fs, i + 1, d, rule, exact,
           Append(acc, [im |-> fs[i], srcs |-> <<fs[i].src>>, duration |-> d]))

\* a frame as the file holds it: the delay is int(duration / 10) hundredths
\* of a second
GifFrame(f, dur) ==
  [srcs |-> f.srcs, img |-> f.im.img, palette |-> f.im.palette, duration |-> dur,
   delay_cs |-> TruncDiv(dur, 10)]

\* the GIF of the kept frames, or struct.error when a delay does not fit the
\* 16-bit field
GifOf(gframes, size) ==
  IF \E i \in DOMAIN gframes : gframes[i].delay_cs >= 2^16
    THEN Exception("struct.error")
    ELSE [kind |-> "gif", error |-> "", frames |-> gframes, size |-> size,
          loop |-> GIF_LOOP, disposal |-> GIF_DISPOSAL]

\* the file for one list of kept frames.  When a single frame is left, it is
\* written with the call's duration or with the summed one, depending on the
\* PIL release.
WriteKept(kept, d, size) ==
  IF Len(kept) > 1
    THEN {GifOf([i \in DOMAIN kept |-> GifFrame(kept[i], kept[i].duration)], size)}
    ELSE {GifOf(<<GifFrame(kept[1], dur)>>, size) : dur \in {d, kept[1].duration}}

\* frames_p[0].save(..., append_images=frames_p[1:], duration=duration_ms)
\* (main.py:98-110): the files the PIL releases can write
SaveGif(fs, d) ==
  UNION {WriteKept(MergeFrames(fs, 1, d, rule, exact, <<>>), d, fs[1].size) :
           rule \in WriterRules, exact \in BlackKept(fs)}

(******************************** actions **********************************)
\* the exception swallowed: the render goes on with the frames made so far
Raise_KeepFrames(name) ==
  /\ pc' = "palette"
  /\ k' = 1
  /\ UNCHANGED <<frames_rgba, palette_img, frames_p, palette_builds, out>>

\* an exception raised inside build_gif_bytes: nothing catches it, neither in
\* build_gif_bytes nor in api_render (main.py:139), and the render ends
Raise(name) ==
  /\ pc' = "done"
  /\ out' = Exception(name)
  /\ UNCHANGED <<k, frames_rgba, palette_img, frames_p, palette_builds>>

\* build_gif_bytes is entered: line 76, then the first loop
EnterCore ==
  /\ core_called' = TRUE
  /\ duration_ms' = DurationMs(fps)
  /\ pc' = IF files = <<>> THEN "palette" ELSE "decode"
  /\ UNCHANGED <<args, k, frames_rgba, palette_img, frames_p, out, palette_builds>>

\* the handler returns an error body without calling the core
Reject(msg) ==
  /\ pc' = "done"
  /\ out' = ErrorBody(msg)
  /\ UNCHANGED <<args, k, duration_ms, frames_rgba, palette_img, frames_p, core_called,
                 palette_builds>>

\* the size check with < 0 for <= 0
ApiRender_AllowZero ==
  /\ entry = "api"
  /\ pc = "request"
  /\ IF Len(files) < 1 THEN Reject("No files")
     ELSE IF Len(files) > MAX_FILES THEN Reject("Too many files (max 80)")
     ELSE IF width < 0 \/ height < 0 \/ width > MAX_SIZE \/ height > MAX_SIZE
       THEN Reject("Invalid size (max 7000x7000)")
     ELSE EnterCore

\* api_render (main.py:118-139) up to the call of build_gif_bytes
ApiRender ==
  /\ entry = "api"
  /\ pc = "request"
  /\ IF Len(files) < 1 THEN Reject("No files")
     ELSE IF Len(files) > MAX_FILES THEN Reject("Too many files (max 80)")
     ELSE IF width <= 0 \/ height <= 0 \/ width > MAX_SIZE \/ height > MAX_SIZE
       THEN Reject("Invalid size (max 7000x7000)")
     ELSE EnterCore

\* build_gif_bytes called by another caller than the handler
CoreCall ==
  /\ entry = "core"
  /\ pc = "request"
  /\ EnterCore

\* one pass of the loop of main.py:79-88
DecodeResize ==
  /\ pc = "decode"
  /\ IF ~files[k].ok
       THEN Raise("UnidentifiedImageError")
       ELSE \E r \in Resize(files[k], width, height, fit) :
              IF ~r.ok
                THEN Raise(r.error)
                ELSE /\ frames_rgba' = Append(frames_rgba, RgbaFrame(k, files[k], r))
                     /\ k' = IF k = Len(files) THEN 1 ELSE k + 1
                     /\ pc' = IF k = Len(files) THEN "palette" ELSE "decode"
                     /\ UNCHANGED <<palette_img, frames_p, out, palette_builds>>
  /\ UNCHANGED <<args, duration_ms, core_called>>

\* main.py:90  palette_img = _make_global_palette(frames_rgba); frames_rgba[0]
\* of an empty list is an IndexError (main.py:54)
BuildPalette ==
  /\ pc = "palette"
  /\ IF frames_rgba = <<>>
       THEN Raise("IndexError")
       ELSE /\ palette_img' = <<MakeGlobalPalette(frames_rgba)>>
            /\ palette_builds' = palette_builds + 1
            /\ pc' = "quantize"
            /\ k' = 1
            /\ UNCHANGED <<frames_rgba, frames_p, out>>
  /\ UNCHANGED <<args, duration_ms, core_called>>

\* one pass of the loop of main.py:93-96
FlattenQuantize ==
  /\ pc = "quantize"
  /\ frames_p' = Append(frames_p, QuantizeFrame(RgbaToRgb(frames_rgba[k]), palette_img[1]))
  /\ k' = IF k = Len(frames_rgba) THEN 1 ELSE k + 1
  /\ pc' = IF k = Len(frames_rgba) THEN "save" ELSE "quantize"
  /\ UNCHANGED <<args, duration_ms, frames_rgba, palette_img, out, core_called, palette_builds>>

\* main.py:98-110 and, for the handler, the StreamingResponse of lines 140-145
Save ==
  /\ pc = "save"
  /\ \E g \in SaveGif(frames_p, duration_ms) : out' = g
  /\ pc' = "done"
  /\ UNCHANGED <<args, k, duration_ms, frames_rgba, palette_img, frames_p, core_called,
                 palette_builds>>

(***************************** specifications ******************************)
InitRender(entries, lists, dims, fpss, fits) ==
  /\ entry \in entries
  /\ files \in lists
  /\ width \in dims
  /\ height \in dims
  /\ fps \in fpss
  /\ fit \in fits
  /\ pc = "request"
  /\ k = 1
  /\ duration_ms = 0
  /\ frames_rgba = <<>>
  /\ palette_img = <<>>
  /\ frames_p = <<>>
  /\ out = NoOut
  /\ core_called = FALSE
  /\ palette_builds = 0

\* a render through the handler or through a direct call of the core; the
\* two uploads at the file limit come with every size and one fps and policy
Init ==
  \/ InitRender({"api", "core"}, SeqsUpTo(MainImages, MaxFiles), Dims, FpsValues, Fits)
  \/ InitRender({"api", "core"}, LongLists, Dims, {Fps(1, 1)}, {"stretch"})

Core == CoreCall \/ DecodeResize \/ BuildPalette \/ FlattenQuantize \/ Save

Next == ApiRender \/ Core

Spec == Init /\ [][Next]_vars

\* decodable pictures of every size up to MaxSrcDim
SizedImages ==
  {[ok |-> TRUE, w |-> sw, h |-> sh, alpha |-> TRUE, black |-> FALSE] : sw \in 1..MaxSrcDim, sh \in 1..MaxSrcDim}

\* the core on one picture of any size, alone or followed by ImgA, for every
\* target from 0 to MaxTgtDim
ResizeInit ==
  InitRender({"core"}, {<<a>> : a \in SizedImages} \cup {<<a, ImgA>> : a \in SizedImages},
             0..MaxTgtDim, {Fps(1, 1)}, Fits)

ResizeSpec == ResizeInit /\ [][Core]_vars

(******************************** claims ***********************************)
AllDecodable == \A i \in DOMAIN files : files[i].ok

\* the parameters the interface allows the core: positive sizes, positive fps
ValidParameters == width >= 1 /\ height >= 1 /\ fps.num > 0

\* C1: a render of N >= 1 decodable images (with valid parameters) produces
\* a GIF with exactly N frames, and frame i of the GIF comes from input
\* image i.
C1_OneFramePerInputInOrder ==
  (out.kind = "gif" /\ ValidParameters) =>
    /\ Len(out.frames) = Len(files)
    /\ \A i \in DOMAIN out.frames : out.frames[i].srcs = <<i>>

\* C2: the core, given an empty file sequence (and valid parameters), ends
\* the render with the dedicated empty-input error.
C2_EmptyInputError ==
  (core_called /\ files = <<>> /\ ValidParameters /\ pc = "done")
    => out = Exception("EmptyInputError")

\* C3: with a target of w, h >= 1, every frame the resizer returns has size
\* exactly (w, h), under stretch and under cover, and the resizer returns a
\* frame for every decodable image: all frames handed to the palette builder
\* have the same size.
C3_FramesHaveTargetSize ==
  (width >= 1 /\ height >= 1) =>
    /\ \A i \in DOMAIN frames_rgba : frames_rgba[i].size = <<width, height>>
    /\ (pc \in {"palette", "quantize", "save"} => Len(frames_rgba) = Len(files))
    /\ (AllDecodable => out.kind # "exception")

\* a second frame of another source size than the first, under cover, neither
\* of the target's size
C3_Witness ==
  /\ fit = "cover"
  /\ pc = "palette"
  /\ Len(frames_rgba) = 2
  /\ width = 3 /\ height = 2
  /\ <<files[1].w, files[1].h>> = <<2, 5>>
  /\ frames_rgba[1].scaled # frames_rgba[1].size

\* the delay round(1000 / fps) of the three rates, in milliseconds
C4Expected ==
  [f \in {Fps(1, 2), Fps(1, 1), Fps(24, 1)} |->
     IF f = Fps(1, 2) THEN 2000 ELSE IF f = Fps(1, 1) THEN 1000 ELSE 42]

\* C4 as claimed: for fps in {0.5, 1, 24} every frame of the produced GIF has
\* the delay round(1000 / fps) ms, that is 2000, 1000 and 42 ms.
C4_DecodedDelayIsRounded ==
  (out.kind = "gif" /\ fps \in DOMAIN C4Expected) =>
    \A i \in DOMAIN out.frames : 10 * out.frames[i].delay_cs = C4Expected[fps]

\* C4 as amended: for fps in {0.5, 1, 24} the duration handed to the GIF writer
\* is round(1000 / fps) ms (2000, 1000, 42), one value for the render; the file
\* holds, per frame, the whole hundredths of a second of that duration times
\* the number of equal consecutive frames the writer merged into it (at least
\* one, at most all it stands for).
C4_DurationHandedToWriter ==
  (core_called /\ fps \in DOMAIN C4Expected) =>
    /\ duration_ms = C4Expected[fps]
    /\ out.kind = "gif" =>
         \A i \in DOMAIN out.frames :
           /\ \E j \in 1..Len(out.frames[i].srcs) :
                out.frames[i].duration = j * C4Expected[fps]
           /\ out.frames[i].delay_cs = out.frames[i].duration \div 10

\* a GIF at 24 fps with two frames
C4_Witness == out.kind = "gif" /\ fps = Fps(24, 1) /\ Len(out.frames) = 2

\* C5: a call of the core with width <= 0, height <= 0 or fps <= 0 (on a
\* non-empty list of decodable images) ends with InvalidParameterError and
\* produces no GIF.
C5_RejectsNonPositive ==
  (core_called /\ pc = "done" /\ files # <<>> /\ AllDecodable /\ ~ValidParameters)
    => out = Exception("InvalidParameterError")

\* C6: the palette is built exactly once in a render, after every frame is
\* resized, and every frame is quantized against that palette, which is not
\* changed between its construction and the last quantization: each
\* quantized frame, and each frame of the GIF, holds the palette the render
\* holds.
C6_OneSharedPalette ==
  /\ palette_builds <= 1
  /\ (palette_img # <<>> <=> palette_builds = 1)
  /\ (palette_builds = 1 => Len(frames_rgba) = Len(files))
  /\ (frames_p # <<>> => palette_img # <<>>)
  /\ \A i \in DOMAIN frames_p : frames_p[i].palette = palette_img[1]
  /\ (out.kind = "gif" => \A i \in DOMAIN out.frames : out.frames[i].palette = palette_img[1])

\* three different consecutive frames quantized, the GIF written
C6_Witness ==
  /\ out.kind = "gif"
  /\ Len(frames_p) = 3
  /\ Len(out.frames) = 3
  /\ files[1] # files[2]

\* C7: when decoding or processing fails on some input, the render returns
\* no GIF bytes at all: a returned GIF stands for every input of the call,
\* and a failed render carries no frame.
C7_NoPartialGif ==
  /\ (out.kind = "gif" =>
        /\ AllDecodable
        /\ \A i \in DOMAIN files : \E j \in DOMAIN out.frames :
             \E m \in DOMAIN out.frames[j].srcs : out.frames[j].srcs[m] = i)
  /\ ((pc = "done" /\ core_called /\ ~AllDecodable) =>
        out.kind = "exception" /\ out.frames = <<>>)

\* the decode of the third of three uploads failed after two frames were made
C7_Witness ==
  /\ pc = "done"
  /\ out.kind = "exception"
  /\ Len(files) = 3
  /\ Len(frames_rgba) = 2
  /\ ~files[3].ok

\* the count and size bounds api_render checks
InsideCountAndSize ==
  /\ 1 <= Len(files) /\ Len(files) <= MAX_FILES
  /\ 1 <= width /\ width <= MAX_SIZE
  /\ 1 <= height /\ height <= MAX_SIZE

\* C8 as claimed: the handler calls the core only with 1 <= files <= 80,
\* 1 <= width, height <= 7000 and fps > 0, and answers every other request
\* with an error without calling the core.
C8_CoreOnlyInsideBounds ==
  entry = "api" =>
    /\ (core_called => InsideCountAndSize /\ fps.num > 0)
    /\ ((pc # "request" /\ ~(InsideCountAndSize /\ fps.num > 0)) =>
          out.kind = "error" /\ ~core_called)

\* C8 as amended: the handler calls the core only with 1 <= files <= 80 and
\* 1 <= width, height <= 7000, and answers every request outside these bounds
\* with an error without calling the core; it does not check fps.
C8_CoreOnlyInsideCountAndSize ==
  entry = "api" =>
    /\ (core_called => InsideCountAndSize)
    /\ ((pc # "request" /\ ~InsideCountAndSize) => out.kind = "error" /\ ~core_called)
    /\ ((pc # "request" /\ InsideCountAndSize) => core_called)

\* 81 files refused, and a width of 0 refused
C8_Witness ==
  /\ entry = "api"
  /\ out.kind = "error"
  /\ ~core_called
  /\ \/ Len(files) = MAX_FILES + 1
     \/ (Len(files) = 1 /\ width = 0)

\* C9 as claimed: every frame handed to the palette builder and every frame
\* handed to the quantizer is flattened, opaque RGB.
C9_FlattenedBeforeBothConsumers ==
  /\ \A p \in DOMAIN palette_img : \A i \in DOMAIN palette_img[p].thumbs :
       palette_img[p].thumbs[i].mode = "RGB" /\ ~palette_img[p].thumbs[i].alpha
  /\ \A i \in DOMAIN frames_p : frames_p[i].from.mode = "RGB" /\ ~frames_p[i].from.alpha

\* C9 as amended: every frame handed to the quantizer is flattened, opaque
\* RGB (an RGBA frame composited over black); the palette builder is handed
\* the resized RGBA frames, not flattened.
C9_FlattenedBeforeQuantizer ==
  /\ \A i \in DOMAIN frames_p :
       /\ frames_p[i].from.mode = "RGB"
       /\ ~frames_p[i].from.alpha
       /\ frames_p[i].from.bg = "black"
  /\ \A p \in DOMAIN palette_img : \A i \in DOMAIN palette_img[p].thumbs :
       /\ palette_img[p].thumbs[i].mode = "RGBA"
       /\ palette_img[p].thumbs[i].alpha = files[i].alpha

\* a translucent picture went through the palette builder and the quantizer
C9_Witness ==
  /\ palette_img # <<>>
  /\ frames_p # <<>>
  /\ frames_p[1].img.alpha

\* C10: under cover, for positive source sizes and targets, the scaled size
\* is the source scaled uniformly by max(w / srcW, h / srcH) and rounded up
\* (by less than two pixels), it is at least the target in both directions,
\* and the crop box (left, top, left + w, top + h) lies inside the scaled
\* image with margins on opposite sides that differ by at most one pixel.
C10_CoverBoxInsideAndCentered ==
  (fit = "cover" /\ width >= 1 /\ height >= 1) =>
    \A i \in DOMAIN frames_rgba :
      LET f == frames_rgba[i]
          sw == f.img.w
          sh == f.img.h
          nw == f.scaled[1]
          nh == f.scaled[2]
          left == f.box[1]
          top == f.box[2]
          right == f.box[3]
          lower == f.box[4]
      IN  /\ nw >= width /\ nh >= height
          /\ nw * sh >= sw * height /\ nh * sw >= sh * width
          /\ (nw - 2) * sw < sw * width \/ (nw - 2) * sh < sw * height
          /\ (nh - 2) * sh < sh * height \/ (nh - 2) * sw < sh * width
          /\ right = left + width /\ lower = top + height
          /\ 0 <= left /\ right <= nw
          /\ 0 <= top /\ lower <= nh
          /\ (nw - right) - left \in {0, 1}
          /\ (nh - lower) - top \in {0, 1}

\* a 5x1 picture covered onto 2x2: scaled to 10x2 and cropped 4 from the left
C10_Witness ==
  /\ fit = "cover"
  /\ width = 2 /\ height = 2
  /\ frames_rgba # <<>>
  /\ frames_rgba[1].scaled = <<10, 2>>
  /\ frames_rgba[1].box = <<4, 0, 6, 2>>

====
